---- MODULE Spec2Model ----
(***************************************************************************)
(* A model of TimetableGenerator (src/timetable_generator.py): the         *)
(* generator object, its add_* operations and the four stages that         *)
(* generate_timetable runs in order, followed by _format_timetable.        *)
(*                                                                         *)
(* Python indexes time_slots from 0 and TLA+ sequences from 1: the colour  *)
(* (time-slot index) c names time_slots[c + 1] here.                       *)
(* Fields the pipeline never reads (Course.name, Course.duration,          *)
(* Room.capacity, Room.room_type) are left out of the records.             *)
(***************************************************************************)
EXTENDS Integers, Sequences, FiniteSets, TLC

(***************************************************************************)
(* Bounds of the model.                                                    *)
(***************************************************************************)
MaxCourses == 3
MaxSlots == 2
MaxRooms == 2
RemovalCourses == 4
MaxCalls == 2

(***************************************************************************)
(* The small sets the inputs are drawn from.                               *)
(***************************************************************************)
Teachers == {"T1", "T2"}
Groups == {"G1", "G2"}
CourseDepartments == {"FCSE", "FEE"}
RoomDepartments == {"FCSE", "FEE", "NAB", "nab"}

\* TimeSlot: start_time and end_time are datetimes built by
\* strptime('%H:%M'), which all carry the same date: they compare by the
\* hour of the day alone.
SlotChoices ==
    { [day |-> "Monday",  start_time |-> 8, end_time |-> 9],
      [day |-> "Monday",  start_time |-> 9, end_time |-> 10],
      [day |-> "Monday",  start_time |-> 8, end_time |-> 10],
      [day |-> "Tuesday", start_time |-> 8, end_time |-> 9] }

VARIABLES
    courses,            \* self.courses: sequence of Course records
    time_slots,         \* self.time_slots: sequence of TimeSlot records
    rooms,              \* self.rooms: sequence of Room records
    graph,              \* self.graph: [nodes: sequence of ids, edges: set of {id, id}]
    color_assignments,  \* self.color_assignments: course id -> time-slot index
    room_assignments,   \* self.room_assignments: course id -> room id
    teacher_schedules,  \* self.teacher_schedules: teacher -> sequence of triples
    student_schedules,  \* self.student_schedules: group -> sequence of triples
                        \* (defaultdict(list): a key exists once it was accessed)
    pc,                 \* the place generate_timetable has reached
    next_course,        \* assign_rooms' loop position in self.courses
    fault,              \* the exception that ended the run, or "none"
    calls,              \* history: the number of generate_timetable calls begun
    previous            \* history: the results as they were when the latest
                        \* call began

vars == << courses, time_slots, rooms, graph, color_assignments,
           room_assignments, teacher_schedules, student_schedules,
           pc, next_course, fault, calls, previous >>

EmptyMap == [x \in {} |-> 0]

\* str.upper() on the department codes of the model.
Upper(d) == IF d = "nab" THEN "NAB" ELSE d

Min(S) == CHOOSE m \in S : \A x \in S : m <= x

Ids(cs) == { cs[k].id : k \in 1..Len(cs) }

(***************************************************************************)
(* Conflict graph (networkx.Graph: nodes in insertion order, undirected    *)
(* edges, no parallel edges).                                              *)
(***************************************************************************)
NodeSet(g) == { g.nodes[k] : k \in 1..Len(g.nodes) }

Neighbors(g, v) == { w \in NodeSet(g) : {v, w} \in g.edges }

Degree(g, v) == Cardinality(Neighbors(g, v))

Conflict(c1, c2) == c1.teacher = c2.teacher \/ c1.student_group = c2.student_group

\* A variant of ConflictEdges that forgets the student_group test.
ConflictEdgesTeacherOnly(cs) ==
    { {cs[p[1]].id, cs[p[2]].id} :
        p \in { q \in (1..Len(cs)) \X (1..Len(cs)) :
                  q[1] < q[2] /\ cs[q[1]].teacher = cs[q[2]].teacher } }

\* build_conflict_graph: the edges its double loop adds.
ConflictEdges(cs) ==
    { {cs[p[1]].id, cs[p[2]].id} :
        p \in { q \in (1..Len(cs)) \X (1..Len(cs)) :
                  q[1] < q[2] /\ Conflict(cs[q[1]], cs[q[2]]) } }

\* add_course's graph.add_node: a node already present is not added again.
AddNode(g, id) ==
    IF id \in NodeSet(g) THEN g
    ELSE [nodes |-> Append(g.nodes, id), edges |-> g.edges]

\* The graph after add_course for every course of cs, in order.
RECURSIVE NodesOf(_)
NodesOf(cs) ==
    IF cs = <<>> THEN [nodes |-> <<>>, edges |-> {}]
    ELSE AddNode(NodesOf(SubSeq(cs, 1, Len(cs) - 1)), cs[Len(cs)].id)

\* build_conflict_graph on a graph g.
WithConflictEdges(g, cs) == [nodes |-> g.nodes, edges |-> g.edges \cup ConflictEdges(cs)]

(***************************************************************************)
(* welsh_powell_coloring                                                   *)
(***************************************************************************)
RemoveAt(s, k) == [j \in 1..(Len(s) - 1) |-> IF j < k THEN s[j] ELSE s[j + 1]]

\* A variant of SortedByDegree that puts the later node first among equal
\* degrees (what reversing an ascending sort would give).
RECURSIVE SortedByDegreeLatestFirst(_, _)
SortedByDegreeLatestFirst(g, nodes) ==
    IF nodes = <<>> THEN <<>>
    ELSE LET top == CHOOSE d \in { Degree(g, nodes[k]) : k \in 1..Len(nodes) } :
                        \A k \in 1..Len(nodes) : Degree(g, nodes[k]) <= d
             last == CHOOSE k \in { j \in 1..Len(nodes) : Degree(g, nodes[j]) = top } :
                        \A j \in 1..Len(nodes) : Degree(g, nodes[j]) = top => j <= k
         IN  <<nodes[last]>> \o SortedByDegreeLatestFirst(g, RemoveAt(nodes, last))

\* sorted(nodes, key=degree, reverse=True): Python's sort is stable, also
\* with reverse=True, so among equal degrees the earlier node stays first.
RECURSIVE SortedByDegree(_, _)
SortedByDegree(g, nodes) ==
    IF nodes = <<>> THEN <<>>
    ELSE LET top == CHOOSE d \in { Degree(g, nodes[k]) : k \in 1..Len(nodes) } :
                        \A k \in 1..Len(nodes) : Degree(g, nodes[k]) <= d
             first == Min({ k \in 1..Len(nodes) : Degree(g, nodes[k]) = top })
         IN  <<nodes[first]>> \o SortedByDegree(g, RemoveAt(nodes, first))

\* next(color for color in available_colors if color not in used_colors):
\* available_colors is set(range(T)); CPython iterates a set of the small
\* integers 0..T-1 in ascending order, so the first one found is the least.
FirstColor(available, used) == Min(available \ used)

\* The loop over the sorted vertices. ok = FALSE: next() found no colour
\* and raised StopIteration (the function returns nothing).
RECURSIVE ColorVertices(_, _, _, _)
ColorVertices(g, vertices, colors, T) ==
    IF vertices = <<>> THEN [ok |-> TRUE, colors |-> colors]
    ELSE LET vertex == Head(vertices)
             used_colors == { colors[n] : n \in Neighbors(g, vertex) \cap DOMAIN colors }
             available_colors == 0..(T - 1)
         IN  IF available_colors \ used_colors = {}
             THEN [ok |-> FALSE, colors |-> colors]
             ELSE ColorVertices(g, Tail(vertices),
                                colors @@ (vertex :> FirstColor(available_colors, used_colors)),
                                T)

\* A variant of WelshPowell whose palette is range(T + 1).
WelshPowellOffByOne(g, T) == ColorVertices(g, SortedByDegree(g, g.nodes), EmptyMap, T + 1)

WelshPowell(g, T) == ColorVertices(g, SortedByDegree(g, g.nodes), EmptyMap, T)

(***************************************************************************)
(* assign_rooms                                                            *)
(***************************************************************************)
TimeSlotsOverlap(slot1, slot2) ==
    /\ slot1.day = slot2.day
    /\ slot1.start_time < slot2.end_time
    /\ slot2.start_time < slot1.end_time

SlotOf(ts, ca, id) == ts[ca[id] + 1]

\* A variant of IsRoomAvailable that forgets the time: a room holds one
\* course.
IsRoomAvailableUnused(room_id, time_slot, ra, ca, ts) ==
    \A course_id \in DOMAIN ra : ra[course_id] # room_id

\* A variant of IsRoomAvailable that compares the slots for equality instead
\* of testing the intervals for overlap.
IsRoomAvailableSameSlot(room_id, time_slot, ra, ca, ts) ==
    \A course_id \in DOMAIN ra :
        ra[course_id] = room_id => time_slot # SlotOf(ts, ca, course_id)

IsRoomAvailable(room_id, time_slot, ra, ca, ts) ==
    \A course_id \in DOMAIN ra :
        ra[course_id] = room_id => ~TimeSlotsOverlap(time_slot, SlotOf(ts, ca, course_id))

DepartmentRooms(rs, course) == SelectSeq(rs, LAMBDA r : r.department = course.department)

\* A variant of NabRooms that compares the department without upper().
NabRoomsExact(rs) == SelectSeq(rs, LAMBDA r : r.department = "NAB")

NabRooms(rs) == SelectSeq(rs, LAMBDA r : Upper(r.department) = "NAB")

OtherRooms(rs, course) ==
    SelectSeq(rs, LAMBDA r : r.department # course.department /\ Upper(r.department) # "NAB")

\* The positions of the rooms of a tier that are free at the slot.
FreeIn(tier, time_slot, ra, ca, ts) ==
    { k \in 1..Len(tier) : IsRoomAvailable(tier[k].id, time_slot, ra, ca, ts) }

\* One pass of the tier loop: the first free room of the tier is assigned
\* (self.room_assignments[course.id] = room.id replaces an entry the course
\* already has).
TryTier(tier, course, time_slot, ra, ca, ts) ==
    LET free == FreeIn(tier, time_slot, ra, ca, ts)
    IN  IF free = {} THEN ra ELSE (course.id :> tier[Min(free)].id) @@ ra

\* A variant of AssignRoom that takes the first free room of the catalog,
\* whatever its tier.
AssignRoomAnyTier(course, ra, ca, ts, rs) ==
    TryTier(rs, course, SlotOf(ts, ca, course.id), ra, ca, ts)

\* The body of assign_rooms' loop for one course. A tier is tried when no
\* earlier tier had a free room (assigned is still False).
AssignRoom(course, ra, ca, ts, rs) ==
    LET time_slot == SlotOf(ts, ca, course.id)
        department_rooms == DepartmentRooms(rs, course)
        nab_rooms == NabRooms(rs)
        other_rooms == OtherRooms(rs, course)
    IN  IF FreeIn(department_rooms, time_slot, ra, ca, ts) # {}
        THEN TryTier(department_rooms, course, time_slot, ra, ca, ts)
        ELSE IF FreeIn(nab_rooms, time_slot, ra, ca, ts) # {}
        THEN TryTier(nab_rooms, course, time_slot, ra, ca, ts)
        ELSE TryTier(other_rooms, course, time_slot, ra, ca, ts)

RECURSIVE AssignRooms(_, _, _, _, _)
AssignRooms(cs, ra, ca, ts, rs) ==
    IF cs = <<>> THEN ra
    ELSE AssignRooms(Tail(cs), AssignRoom(Head(cs), ra, ca, ts, rs), ca, ts, rs)

(***************************************************************************)
(* optimize_schedules                                                      *)
(***************************************************************************)
\* next(r for r in self.rooms if r.id == room_id)
RoomById(rs, room_id) == rs[Min({ k \in 1..Len(rs) : rs[k].id = room_id })]

\* The courses the first loop does not skip.
Scheduled(cs, ra) == { cs[k] : k \in { j \in 1..Len(cs) : cs[j].id \in DOMAIN ra } }

\* defaultdict(list): a key never accessed reads as the empty list.
ScheduleOf(schedules, key) == IF key \in DOMAIN schedules THEN schedules[key] ELSE <<>>

\* The triples the first loop appends, in registration order, to the
\* schedule stored under `key': the schedule of a teacher (field "teacher")
\* or of a group (field "student_group").
RECURSIVE Appended(_, _, _, _, _, _, _)
Appended(cs, field, key, ra, ca, ts, rs) ==
    IF cs = <<>> THEN <<>>
    ELSE LET course == Head(cs)
             rest == Appended(Tail(cs), field, key, ra, ca, ts, rs)
         IN  IF course.id \in DOMAIN ra /\ course[field] = key
             THEN << <<course, SlotOf(ts, ca, course.id), RoomById(rs, ra[course.id])>> >> \o rest
             ELSE rest

\* list.sort(key=lambda x: x[1].start_time): a stable sort on the start
\* time alone (x[1] is the triple's time slot, the second component).
SortKey(x) == x[2].start_time

\* A variant of SortByStart that keeps one entry per start time.
RECURSIVE SortByStartOnePerKey(_)
SortByStartOnePerKey(s) ==
    IF s = <<>> THEN <<>>
    ELSE LET least == Min({ SortKey(s[k]) : k \in 1..Len(s) })
             first == Min({ k \in 1..Len(s) : SortKey(s[k]) = least })
         IN  <<s[first]>> \o
             SortByStartOnePerKey(SelectSeq(s, LAMBDA x : SortKey(x) # least))

RECURSIVE SortByStart(_)
SortByStart(s) ==
    IF s = <<>> THEN <<>>
    ELSE LET least == Min({ SortKey(s[k]) : k \in 1..Len(s) })
             first == Min({ k \in 1..Len(s) : SortKey(s[k]) = least })
         IN  <<s[first]>> \o SortByStart(RemoveAt(s, first))

(***************************************************************************)
(* The generator's operations.                                             *)
(***************************************************************************)
\* What a call of generate_timetable leaves in the generator.
Results ==
    [color_assignments |-> color_assignments, room_assignments |-> room_assignments,
     teacher_schedules |-> teacher_schedules, student_schedules |-> student_schedules]

Init ==
    /\ courses = <<>>
    /\ time_slots = <<>>
    /\ rooms = <<>>
    /\ graph = [nodes |-> <<>>, edges |-> {}]
    /\ color_assignments = EmptyMap
    /\ room_assignments = EmptyMap
    /\ teacher_schedules = EmptyMap
    /\ student_schedules = EmptyMap
    /\ pc = "setup"
    /\ next_course = 1
    /\ fault = "none"
    /\ calls = 0
    /\ previous = Results

\* add_course. Course ids are unique (the input contract) and the code only
\* ever compares ids for equality, so the id is the registration number.
AddCourse ==
    /\ pc = "setup"
    /\ Len(courses) < MaxCourses
    /\ \E t \in Teachers, s \in Groups, d \in CourseDepartments :
         LET course == [id |-> Len(courses) + 1, teacher |-> t,
                        student_group |-> s, department |-> d]
         IN  /\ courses' = Append(courses, course)
             /\ graph' = AddNode(graph, course.id)
    /\ UNCHANGED << time_slots, rooms, color_assignments, room_assignments,
                    teacher_schedules, student_schedules, pc, next_course, fault >>
    /\ UNCHANGED << calls, previous >>

AddTimeSlot ==
    /\ pc = "setup"
    /\ Len(time_slots) < MaxSlots
    /\ \E time_slot \in SlotChoices : time_slots' = Append(time_slots, time_slot)
    /\ UNCHANGED << courses, rooms, graph, color_assignments, room_assignments,
                    teacher_schedules, student_schedules, pc, next_course, fault >>
    /\ UNCHANGED << calls, previous >>

\* add_room. Room ids are unique (the input contract): the id is the
\* catalog position.
AddRoom ==
    /\ pc = "setup"
    /\ Len(rooms) < MaxRooms
    /\ \E d \in RoomDepartments :
         rooms' = Append(rooms, [id |-> Len(rooms) + 1, department |-> d])
    /\ UNCHANGED << courses, time_slots, graph, color_assignments, room_assignments,
                    teacher_schedules, student_schedules, pc, next_course, fault >>
    /\ UNCHANGED << calls, previous >>

\* generate_timetable, stage 1: build_conflict_graph (add_edge on an edge
\* already present changes nothing).
StartGenerateTimetable ==
    /\ graph' = WithConflictEdges(graph, courses)
    /\ pc' = "coloring"
    /\ calls' = calls + 1
    /\ previous' = Results
    /\ UNCHANGED << courses, time_slots, rooms, color_assignments, room_assignments,
                    teacher_schedules, student_schedules, next_course, fault >>

\* The driver's call of generate_timetable.
BuildConflictGraph ==
    /\ pc = "setup"
    /\ StartGenerateTimetable

\* A further call of generate_timetable on the same generator, after a call
\* that returned.
GenerateTimetableAgain ==
    /\ pc = "done"
    /\ calls < MaxCalls
    /\ StartGenerateTimetable

\* generate_timetable, stage 2: self.color_assignments = self.welsh_powell_coloring().
\* When next() raises, the assignment never happens and the exception leaves
\* generate_timetable.
WelshPowellColoring ==
    /\ pc = "coloring"
    /\ LET result == WelshPowell(graph, Len(time_slots))
       IN  IF result.ok
           THEN /\ color_assignments' = result.colors
                /\ pc' = "rooms"
                /\ fault' = fault
           ELSE /\ color_assignments' = color_assignments
                /\ pc' = "crashed"
                /\ fault' = "StopIteration in welsh_powell_coloring"
    /\ next_course' = 1
    /\ UNCHANGED << courses, time_slots, rooms, graph, room_assignments,
                    teacher_schedules, student_schedules >>
    /\ UNCHANGED << calls, previous >>

\* generate_timetable, stage 3: one iteration of assign_rooms' loop.
AssignRoomsStep ==
    /\ pc = "rooms"
    /\ next_course <= Len(courses)
    /\ room_assignments' = AssignRoom(courses[next_course], room_assignments,
                                      color_assignments, time_slots, rooms)
    /\ next_course' = next_course + 1
    /\ UNCHANGED << courses, time_slots, rooms, graph, color_assignments,
                    teacher_schedules, student_schedules, pc, fault >>
    /\ UNCHANGED << calls, previous >>

\* generate_timetable, stage 4: optimize_schedules, its append loop and its
\* two sorting loops.
OptimizeSchedules ==
    /\ pc = "rooms"
    /\ next_course > Len(courses)
    /\ teacher_schedules' =
         [t \in DOMAIN teacher_schedules \cup
                 { c.teacher : c \in Scheduled(courses, room_assignments) } |->
            SortByStart(ScheduleOf(teacher_schedules, t) \o
                        Appended(courses, "teacher", t, room_assignments,
                                 color_assignments, time_slots, rooms))]
    /\ student_schedules' =
         [s \in DOMAIN student_schedules \cup
                 { c.student_group : c \in Scheduled(courses, room_assignments) } |->
            SortByStart(ScheduleOf(student_schedules, s) \o
                        Appended(courses, "student_group", s, room_assignments,
                                 color_assignments, time_slots, rooms))]
    /\ pc' = "format"
    /\ UNCHANGED << courses, time_slots, rooms, graph, color_assignments,
                    room_assignments, next_course, fault >>
    /\ UNCHANGED << calls, previous >>

\* _format_timetable's loop over self.courses: the lookup
\* self.room_assignments[course.id] sits in the condition of the generator
\* expression and raises KeyError for a course without a room; with an empty
\* room catalog the condition is never evaluated and next() raises
\* StopIteration.
FormatFault(cs, ra, rs) ==
    IF \A k \in 1..Len(cs) : cs[k].id \in DOMAIN ra THEN "none"
    ELSE IF rs = <<>> THEN "StopIteration in _format_timetable"
    ELSE "KeyError in _format_timetable"

FormatTimetable ==
    /\ pc = "format"
    /\ fault' = FormatFault(courses, room_assignments, rooms)
    /\ pc' = IF fault' = "none" THEN "done" ELSE "crashed"
    /\ UNCHANGED << courses, time_slots, rooms, graph, color_assignments,
                    room_assignments, teacher_schedules, student_schedules, next_course >>
    /\ UNCHANGED << calls, previous >>

Next ==
    \/ AddCourse
    \/ AddTimeSlot
    \/ AddRoom
    \/ BuildConflictGraph
    \/ WelshPowellColoring
    \/ AssignRoomsStep
    \/ OptimizeSchedules
    \/ FormatTimetable

Spec == Init /\ [][Next]_vars

\* The generator when generate_timetable may be called up to MaxCalls times.
NextRerun ==
    \/ AddCourse
    \/ AddTimeSlot
    \/ AddRoom
    \/ BuildConflictGraph
    \/ WelshPowellColoring
    \/ AssignRoomsStep
    \/ OptimizeSchedules
    \/ FormatTimetable
    \/ GenerateTimetableAgain

SpecRerun == Init /\ [][NextRerun]_vars

(***************************************************************************)
(* The pipeline as a function of its input, for comparing two runs: the    *)
(* generator after the driver has added RemovalCourses courses, a catalog  *)
(* of three time slots and a room catalog, and then the stages of          *)
(* generate_timetable.                                                     *)
(***************************************************************************)
RemovalSlotCatalogs ==
    { << [day |-> "Monday",  start_time |-> 8, end_time |-> 9],
         [day |-> "Monday",  start_time |-> 9, end_time |-> 10],
         [day |-> "Tuesday", start_time |-> 8, end_time |-> 9] >>,
      << [day |-> "Monday",  start_time |-> 8, end_time |-> 9],
         [day |-> "Monday",  start_time |-> 8, end_time |-> 10],
         [day |-> "Monday",  start_time |-> 9, end_time |-> 10] >> }

RemovalRoomCatalogs ==
    { << [id |-> 1, department |-> "FCSE"], [id |-> 2, department |-> "NAB"] >>,
      << [id |-> 1, department |-> "FME"], [id |-> 2, department |-> "FCSE"],
         [id |-> 3, department |-> "NAB"] >> }

InitRemoval ==
    /\ courses \in
         { [k \in 1..RemovalCourses |->
              [id |-> k, teacher |-> f[k].teacher, student_group |-> f[k].student_group,
               department |-> f[k].department]] :
           f \in [1..RemovalCourses -> [teacher : Teachers, student_group : Groups,
                                        department : CourseDepartments]] }
    /\ time_slots \in RemovalSlotCatalogs
    /\ rooms \in RemovalRoomCatalogs
    /\ graph = NodesOf(courses)
    /\ color_assignments = EmptyMap
    /\ room_assignments = EmptyMap
    /\ teacher_schedules = EmptyMap
    /\ student_schedules = EmptyMap
    /\ pc = "setup"
    /\ next_course = 1
    /\ fault = "none"
    /\ calls = 0
    /\ previous = Results

NextRemoval ==
    \/ BuildConflictGraph
    \/ WelshPowellColoring
    \/ AssignRoomsStep
    \/ OptimizeSchedules
    \/ FormatTimetable

SpecRemoval == InitRemoval /\ [][NextRemoval]_vars

\* The slots and rooms generate_timetable computes on a fresh generator
\* holding the courses cs, the time slots ts and the rooms rs. colored is
\* FALSE when welsh_powell_coloring raised (nothing is assigned then).
Pipeline(cs, ts, rs) ==
    LET result == WelshPowell(WithConflictEdges(NodesOf(cs), cs), Len(ts))
    IN  IF result.ok
        THEN [colored |-> TRUE, colors |-> result.colors,
              rooms |-> AssignRooms(cs, EmptyMap, result.colors, ts, rs)]
        ELSE [colored |-> FALSE, colors |-> EmptyMap, rooms |-> EmptyMap]

(***************************************************************************)
(* Properties.                                                             *)
(***************************************************************************)
ColoringFault == "StopIteration in welsh_powell_coloring"

\* Stage 2 has completed: color_assignments holds its result.
Colored ==
    \/ pc \in {"rooms", "format", "done"}
    \/ pc = "crashed" /\ fault # ColoringFault

\* Stage 3 has completed.
RoomsDone ==
    \/ pc = "rooms" /\ next_course > Len(courses)
    \/ pc \in {"format", "done"}
    \/ pc = "crashed" /\ fault # ColoringFault

\* Stage 4 has completed.
SchedulesDone ==
    \/ pc \in {"format", "done"}
    \/ pc = "crashed" /\ fault # ColoringFault

\* The positions in self.courses that assign_rooms has processed.
Processed ==
    IF RoomsDone THEN 1..Len(courses)
    ELSE IF pc = "rooms" THEN 1..(next_course - 1)
    ELSE {}

\* The overlap of two time slots as the claims define it.
Overlaps(s1, s2) ==
    s1.day = s2.day /\ s1.start_time < s2.end_time /\ s2.start_time < s1.end_time

AssignedSlot(id) == time_slots[color_assignments[id] + 1]

\* C1: once the coloring has completed, two distinct courses that share a
\* teacher or a student group have different time-slot indices.
C1_ConflictingCoursesDiffer ==
    Colored =>
        \A a \in 1..Len(courses) : \A b \in 1..Len(courses) :
            ( /\ a # b
              /\ \/ courses[a].teacher = courses[b].teacher
                 \/ courses[a].student_group = courses[b].student_group )
            => color_assignments[courses[a].id] # color_assignments[courses[b].id]

C1_Witness ==
    /\ pc = "done"
    /\ \E a \in 1..Len(courses) : \E b \in 1..Len(courses) :
         /\ a # b
         /\ courses[a].teacher # courses[b].teacher
         /\ courses[a].student_group = courses[b].student_group
         /\ color_assignments[courses[a].id] # color_assignments[courses[b].id]

\* C2: at every point of assign_rooms and after it, two distinct courses
\* mapped to the same room have time slots that do not overlap.
C2_NoRoomDoubleBooked ==
    \A a \in DOMAIN room_assignments : \A b \in DOMAIN room_assignments :
        (a # b /\ room_assignments[a] = room_assignments[b])
        => ~Overlaps(AssignedSlot(a), AssignedSlot(b))

C2_Witness ==
    /\ pc = "rooms"
    /\ next_course <= Len(courses)
    /\ \E a \in DOMAIN room_assignments : \E b \in DOMAIN room_assignments :
         /\ a # b
         /\ room_assignments[a] = room_assignments[b]
         /\ AssignedSlot(a).day = AssignedSlot(b).day

\* The rooms (catalog positions) that were free when the course at position k
\* was processed: those no course registered before it occupies at an
\* overlapping slot.
FreeWhenProcessed(k) ==
    { r \in 1..Len(rooms) :
        ~\E j \in 1..(k - 1) :
            /\ courses[j].id \in DOMAIN room_assignments
            /\ room_assignments[courses[j].id] = rooms[r].id
            /\ Overlaps(AssignedSlot(courses[k].id), AssignedSlot(courses[j].id)) }

HomeRooms(k) == { r \in 1..Len(rooms) : rooms[r].department = courses[k].department }

\* The overflow department is NAB; the code reads the department code
\* without regard to case.
OverflowRooms(k) == { r \in 1..Len(rooms) : rooms[r].department \in {"NAB", "nab"} }

ForeignRooms(k) == (1..Len(rooms)) \ (HomeRooms(k) \cup OverflowRooms(k))

\* The room the tier rule demands for the course at position k: the first
\* free home room, else the first free overflow room, else the first free
\* room of another department; 0 when no room is free.
DemandedRoom(k) ==
    LET free == FreeWhenProcessed(k)
    IN  IF HomeRooms(k) \cap free # {} THEN Min(HomeRooms(k) \cap free)
        ELSE IF OverflowRooms(k) \cap free # {} THEN Min(OverflowRooms(k) \cap free)
        ELSE IF ForeignRooms(k) \cap free # {} THEN Min(ForeignRooms(k) \cap free)
        ELSE 0

\* C3: a processed course for which some room is free holds the first free
\* room, in catalog order, of the first tier (home, overflow, other) that has
\* a free room.
C3_TierPreference ==
    \A k \in Processed :
        DemandedRoom(k) # 0 =>
            /\ courses[k].id \in DOMAIN room_assignments
            /\ room_assignments[courses[k].id] = rooms[DemandedRoom(k)].id

C3_Witness ==
    /\ RoomsDone
    /\ \E k \in Processed :
         /\ HomeRooms(k) \cap FreeWhenProcessed(k) # {}
         /\ \E r \in FreeWhenProcessed(k) \ HomeRooms(k) : r < DemandedRoom(k)
         /\ room_assignments[courses[k].id] = rooms[DemandedRoom(k)].id
    /\ \E k \in Processed :
         /\ HomeRooms(k) # {}
         /\ HomeRooms(k) \cap FreeWhenProcessed(k) = {}
         /\ DemandedRoom(k) \in OverflowRooms(k)
         /\ room_assignments[courses[k].id] = rooms[DemandedRoom(k)].id

\* C4: after assign_rooms the courses without a room are exactly those for
\* which, when they were processed, every room of the catalog was occupied by
\* an already assigned course at an overlapping slot.
C4_UnscheduledIffExhausted ==
    RoomsDone =>
        { k \in 1..Len(courses) : courses[k].id \notin DOMAIN room_assignments }
        = { k \in 1..Len(courses) : FreeWhenProcessed(k) = {} }

C4_Witness ==
    /\ RoomsDone
    /\ rooms # <<>>
    /\ \E k \in 1..Len(courses) :
         /\ courses[k].id \notin DOMAIN room_assignments
         /\ FreeWhenProcessed(k) = {}
    /\ \E k \in 1..Len(courses) :
         /\ k > 1
         /\ courses[k].id \in DOMAIN room_assignments
         /\ FreeWhenProcessed(k) # 1..Len(rooms)

\* C9: once the coloring has completed, color_assignments has exactly one
\* entry for every added course and every value is an index in 0..T-1.
C9_ColoringTotalAndInRange ==
    Colored =>
        /\ DOMAIN color_assignments = Ids(courses)
        /\ \A id \in DOMAIN color_assignments :
             color_assignments[id] \in 0..(Len(time_slots) - 1)

C9_Witness ==
    /\ Colored
    /\ Len(courses) = MaxCourses
    /\ \E id \in DOMAIN color_assignments : color_assignments[id] = Len(time_slots) - 1
    /\ \E id \in DOMAIN color_assignments : color_assignments[id] = 0
    /\ Len(time_slots) > 1

\* The entries (schedule key, position) of all the schedules that are for
\* the course.
AllEntries(schedules, course) ==
    { <<key, n>> \in UNION { {key} \X (1..Len(schedules[key])) : key \in DOMAIN schedules } :
        schedules[key][n][1].id = course.id }

\* C10: after stages 1 to 4 a course with a room is exactly once in its
\* teacher's schedule and exactly once in its group's schedule, as the
\* triple (course, its time slot, its room); a course without a room is in no
\* schedule.
C10_SchedulesHoldAssignedCourses ==
    SchedulesDone =>
        \A k \in 1..Len(courses) :
            LET course == courses[k]
            IN  IF course.id \in DOMAIN room_assignments
                THEN LET triple == << course, AssignedSlot(course.id),
                                      CHOOSE r \in { rooms[n] : n \in 1..Len(rooms) } :
                                          r.id = room_assignments[course.id] >>
                     IN  /\ Cardinality(AllEntries(teacher_schedules, course)) = 1
                         /\ Cardinality(AllEntries(student_schedules, course)) = 1
                         /\ \E n \in 1..Len(ScheduleOf(teacher_schedules, course.teacher)) :
                              teacher_schedules[course.teacher][n] = triple
                         /\ \E n \in 1..Len(ScheduleOf(student_schedules, course.student_group)) :
                              student_schedules[course.student_group][n] = triple
                ELSE /\ AllEntries(teacher_schedules, course) = {}
                     /\ AllEntries(student_schedules, course) = {}

C10_Witness ==
    /\ SchedulesDone
    /\ \E k \in 1..Len(courses) : courses[k].id \notin DOMAIN room_assignments
    /\ \E a \in 1..Len(courses) : \E b \in 1..Len(courses) :
         /\ a # b
         /\ courses[a].id \in DOMAIN room_assignments
         /\ courses[b].id \in DOMAIN room_assignments
         /\ courses[a].teacher = courses[b].teacher
         /\ AssignedSlot(courses[a].id).start_time = AssignedSlot(courses[b].id).start_time

\* C5 (as claimed): with a catalog of T >= 1 time slots the coloring stage
\* never ends with an unhandled fault; a course whose neighbours use every
\* colour 0..T-1 is reported, not raised.
C5_CapacityExceededReported ==
    Len(time_slots) >= 1 => ~(pc = "crashed" /\ fault = ColoringFault)

\* C6 (as claimed): when some course found every room of a non-empty catalog
\* occupied, the run is not aborted: generate_timetable does not end with a
\* fault.
C6_MissingRoomDoesNotAbort ==
    ( /\ RoomsDone
      /\ rooms # <<>>
      /\ \E k \in 1..Len(courses) : courses[k].id \notin DOMAIN room_assignments )
    => pc # "crashed"

Weekdays == <<"Monday", "Tuesday", "Wednesday", "Thursday", "Friday">>

DayIndex(day) == CHOOSE i \in 1..Len(Weekdays) : Weekdays[i] = day

\* The order of the week on schedule entries: by weekday, then by start
\* time, then by course id.
WeekOrdered(x, y) ==
    \/ DayIndex(x[2].day) < DayIndex(y[2].day)
    \/ /\ x[2].day = y[2].day
       /\ \/ x[2].start_time < y[2].start_time
          \/ x[2].start_time = y[2].start_time /\ x[1].id <= y[1].id

SortedByWeek(schedule) ==
    \A m \in 1..Len(schedule) : \A n \in 1..Len(schedule) :
        m < n => WeekOrdered(schedule[m], schedule[n])

\* C7 (as claimed): after optimize_schedules every teacher schedule and every
\* group schedule is ascending by weekday, then start time, then course id.
C7_SchedulesSortedByWeek ==
    SchedulesDone =>
        /\ \A t \in DOMAIN teacher_schedules : SortedByWeek(teacher_schedules[t])
        /\ \A g \in DOMAIN student_schedules : SortedByWeek(student_schedules[g])

\* A rerun of the pipeline on the input without the course at position r.
Rerun(r) == Pipeline(RemoveAt(courses, r), time_slots, rooms)

\* The slot index and the room of a course in a run; -1 and 0 stand for none.
SlotIn(colors, id) == IF id \in DOMAIN colors THEN colors[id] ELSE -1
RoomIn(ra, id) == IF id \in DOMAIN ra THEN ra[id] ELSE 0

SameSlot(r, x) ==
    SlotIn(Rerun(r).colors, courses[x].id) = SlotIn(color_assignments, courses[x].id)

SameRoom(r, x) ==
    RoomIn(Rerun(r).rooms, courses[x].id) = RoomIn(room_assignments, courses[x].id)

\* In the original run x shares no teacher, no student group, no assigned
\* room and no assigned slot with r (their slots do not even overlap).
Unrelated(r, x) ==
    /\ x # r
    /\ courses[x].teacher # courses[r].teacher
    /\ courses[x].student_group # courses[r].student_group
    /\ color_assignments[courses[x].id] # color_assignments[courses[r].id]
    /\ ~Overlaps(AssignedSlot(courses[x].id), AssignedSlot(courses[r].id))
    /\ ~ ( /\ courses[x].id \in DOMAIN room_assignments
           /\ courses[r].id \in DOMAIN room_assignments
           /\ room_assignments[courses[x].id] = room_assignments[courses[r].id] )

\* C8 (as claimed): the rerun without R gives every course unrelated to R
\* the slot index and the room of the original run.
C8_RemovalKeepsUnrelated ==
    (RoomsDone /\ Colored) =>
        \A r \in 1..Len(courses) : \A x \in 1..Len(courses) :
            Unrelated(r, x) => SameSlot(r, x) /\ SameRoom(r, x)

\* R is in conflict with no course.
Isolated(r) ==
    \A y \in 1..Len(courses) :
        y # r => /\ courses[y].teacher # courses[r].teacher
                 /\ courses[y].student_group # courses[r].student_group

\* No two slots at distinct positions of the catalog overlap.
CatalogDisjoint ==
    \A i \in 1..Len(time_slots) : \A j \in 1..Len(time_slots) :
        i # j => ~Overlaps(time_slots[i], time_slots[j])

\* C8 (amended): when R is in conflict with no course and no two slots of the
\* catalog overlap, the rerun without R gives every course unrelated to R the
\* slot index and the room of the original run.
C8_RemovalOfIsolatedKeepsUnrelated ==
    (RoomsDone /\ Colored /\ CatalogDisjoint) =>
        \A r \in 1..Len(courses) : \A x \in 1..Len(courses) :
            (Isolated(r) /\ Unrelated(r, x)) => SameSlot(r, x) /\ SameRoom(r, x)

\* The amended C8 without one of its two provisos (both are violated).
C8_WithoutDisjointCatalog ==
    (RoomsDone /\ Colored) =>
        \A r \in 1..Len(courses) : \A x \in 1..Len(courses) :
            (Isolated(r) /\ Unrelated(r, x)) => SameSlot(r, x) /\ SameRoom(r, x)

C8_WithoutIsolation ==
    (RoomsDone /\ Colored /\ CatalogDisjoint) =>
        \A r \in 1..Len(courses) : \A x \in 1..Len(courses) :
            Unrelated(r, x) => SameSlot(r, x) /\ SameRoom(r, x)

C8_Witness ==
    /\ pc = "done"
    /\ CatalogDisjoint
    /\ \E r \in 1..Len(courses) : \E x \in 1..Len(courses) :
         /\ Isolated(r)
         /\ Unrelated(r, x)
         /\ r < x
         /\ courses[r].id \in DOMAIN room_assignments
         /\ courses[x].id \in DOMAIN room_assignments
         /\ Rerun(r).colored
         /\ SameSlot(r, x) /\ SameRoom(r, x)

(***************************************************************************)
(* The reference Welsh-Powell colouring, stated without the loop.          *)
(***************************************************************************)
\* The position at which add_course registered the course id.
Registration(id) == Min({ k \in 1..Len(courses) : courses[k].id = id })

\* v comes before w in the reference order: higher degree first, equal
\* degrees in registration order.
Precedes(v, w) ==
    \/ Degree(graph, v) > Degree(graph, w)
    \/ Degree(graph, v) = Degree(graph, w) /\ Registration(v) < Registration(w)

\* The colours left to v by the neighbours the reference colours before v.
FreeColors(f, v) ==
    (0..(Len(time_slots) - 1)) \ { f[w] : w \in { n \in Neighbors(graph, v) : Precedes(n, v) } }

\* f is a reference colouring: it gives every course the least colour its
\* earlier neighbours leave free. Going down the reference order shows that
\* at most one f is.
IsReferenceColoring(f) ==
    /\ DOMAIN f = Ids(courses)
    /\ \A v \in Ids(courses) :
         LET free == FreeColors(f, v)
         IN  f[v] \in free /\ \A c \in free : f[v] <= c

\* The reference colourings (none when some course is left no colour).
ReferenceColorings ==
    { f \in [Ids(courses) -> 0..(Len(time_slots) - 1)] : IsReferenceColoring(f) }

\* The order welsh_powell_coloring processes the ids in.
ProcessingOrder == SortedByDegree(graph, graph.nodes)

\* C11: welsh_powell_coloring processes the course ids by degree descending,
\* equal degrees in registration order, and its result is the reference
\* colouring: every course has the least colour of 0..T-1 that no neighbour
\* coloured before it has; it has no result only when the reference has none.
C11_EqualsReferenceWelshPowell ==
    (pc \notin {"setup", "coloring"}) =>
        LET order == ProcessingOrder
        IN  /\ Len(order) = Len(courses)
            /\ { order[i] : i \in 1..Len(order) } = Ids(courses)
            /\ \A i \in 1..Len(order) : \A j \in 1..Len(order) :
                 i < j => Precedes(order[i], order[j])
            /\ IF Colored
               THEN IsReferenceColoring(color_assignments)
               ELSE ReferenceColorings = {}

\* A coloured run where the order and the choice of colour both matter: a
\* later course of higher degree is processed before an earlier one, two
\* neighbours have equal degree, and a course gets a colour other than 0.
C11_Witness ==
    /\ Colored
    /\ \E v \in Ids(courses) : \E w \in Ids(courses) :
         /\ Registration(v) < Registration(w)
         /\ Degree(graph, v) < Degree(graph, w)
    /\ \E v \in Ids(courses) : \E w \in Neighbors(graph, v) :
         /\ v # w
         /\ Degree(graph, v) = Degree(graph, w)
         /\ color_assignments[v] # color_assignments[w]
    /\ \E v \in Ids(courses) : color_assignments[v] >= 1

(***************************************************************************)
(* A second call of generate_timetable.                                    *)
(***************************************************************************)
\* A call after the first has returned.
LaterCallReturned == calls >= 2 /\ pc = "done"

\* C12 (as claimed): a further call of generate_timetable on the same
\* generator leaves color_assignments, room_assignments, the teacher
\* schedules and the group schedules as they were after the call before.
C12_SecondCallKeepsResults ==
    LaterCallReturned => Results = previous

\* The parts of C12, one result at a time.
C12_ColorAssignmentsKept ==
    LaterCallReturned => color_assignments = previous.color_assignments

C12_RoomAssignmentsKept ==
    LaterCallReturned => room_assignments = previous.room_assignments

C12_SchedulesKept ==
    LaterCallReturned =>
        /\ teacher_schedules = previous.teacher_schedules
        /\ student_schedules = previous.student_schedules

\* What the code does instead: the later call appends every course's triple
\* once more, so every schedule doubles in length.
C12_SchedulesDoubled ==
    (calls = 2 /\ pc = "done") =>
        /\ DOMAIN teacher_schedules = DOMAIN previous.teacher_schedules
        /\ \A t \in DOMAIN teacher_schedules :
             Len(teacher_schedules[t]) = 2 * Len(previous.teacher_schedules[t])
        /\ DOMAIN student_schedules = DOMAIN previous.student_schedules
        /\ \A g \in DOMAIN student_schedules :
             Len(student_schedules[g]) = 2 * Len(previous.student_schedules[g])

\* A second call has returned and moved a course to another room.
C12_RoomMoved ==
    /\ calls = 2 /\ pc = "done"
    /\ \E id \in DOMAIN room_assignments :
         room_assignments[id] # previous.room_assignments[id]

====
